---- MODULE Spec2Model ----
(***************************************************************************)
(* Model of the AVR ATmega16 joystick demonstration programs:              *)
(*   - the direction classifier of src/src/joystick.c,                      *)
(*   - adc_to_percent and the ADC read sequence of src/src/adc.c,           *)
(*   - the polling loop of src/examples/direction_display/main.c with the   *)
(*     character display driven through src/src/lcd.c,                      *)
(*   - the GPIO loop of src/examples/digital_input/main.c.                  *)
(***************************************************************************)
EXTENDS Integers, Sequences, FiniteSets, TLC

VARIABLES
    pc,         \* position of the running program / harness
    pos,        \* joystick_position_t pos  ([x, y])
    dir,        \* joystick_direction_t dir (result of the classifier)
    last_dir,   \* joystick_direction_t last_dir of the polling loop
    centered,   \* result of joystick_is_centered
    label,      \* result of joystick_direction_to_string (tuple of chars)
    value,      \* argument of adc_to_percent
    product,    \* intermediate (uint16_t)value * 100 of adc_to_percent
    percent,    \* result of adc_to_percent
    ADMUX,      \* ADC multiplexer register
    ADCSRA,     \* ADC control/status register
    ADCH,       \* ADC data register, high byte
    ADCL,       \* ADC data register, low byte
    SREG,       \* status register (bit 7: global interrupt enable)
    adc_value,  \* value returned by the last adc_read / adc_read_8bit
    lcd,        \* display: [ac |-> address counter, ddram |-> cells]
    prev_dir,   \* history: direction classified in the previous cycle
    wrote,      \* history: the current cycle has written to the display
    shown,      \* history: the last MaxShown directions sent to the display
    DDRD,       \* port D direction register
    PORTD,      \* port D output register
    PIND,       \* port D pin value as last read
    read1,      \* history: PD1 level seen by the first test of an iteration
    read2       \* history: PD1 level seen by the second test of an iteration

vars == <<pc, pos, dir, last_dir, centered, label, value, product, percent,
          ADMUX, ADCSRA, ADCH, ADCL, SREG, adc_value,
          lcd, prev_dir, wrote, shown,
          DDRD, PORTD, PIND, read1, read2>>

(***************************************************************************)
(* Bounds of the model                                                     *)
(***************************************************************************)
\* how far outside the enum range the arguments of direction_to_string go
OutOfRange == 3
\* length of the window of display dispatches that is remembered
MaxShown == 2
\* highest ADC channel the callers of adc_read and adc_read_8bit select
MaxChannel == 2

\* ADC readings offered by the hardware in the polling loop
Samples == {0, 128, 170, 200, 255}
\* the two low bits of the 10-bit conversion result
LowBits == {0, 3}

(***************************************************************************)
(* config.h                                                                *)
(***************************************************************************)
JOYSTICK_X_CHANNEL == 0
JOYSTICK_Y_CHANNEL == 1
ADC_MAX == 255
THRESHOLD_NORTH_Y == 240
THRESHOLD_SOUTH_Y == 50
THRESHOLD_EAST_X == 240
THRESHOLD_WEST_X == 70
CENTER_X_MIN == 70
CENTER_X_MAX == 180
CENTER_Y_MIN == 110
CENTER_Y_MAX == 160
DIAGONAL_THRESHOLD_HIGH == 230
DIAGONAL_THRESHOLD_LOW == 50
LCD_CMD_FUNCTION_SET == 56
LCD_CMD_DISPLAY_ON == 14
LCD_CMD_CLEAR == 1
LCD_CMD_ENTRY_MODE == 6
LCD_CMD_LINE1 == 128
LCD_CMD_LINE2 == 192

(***************************************************************************)
(* joystick.h: joystick_direction_t                                        *)
(***************************************************************************)
DIR_CENTER == 0
DIR_NORTH == 1
DIR_SOUTH == 2
DIR_EAST == 3
DIR_WEST == 4
DIR_NORTH_EAST == 5
DIR_NORTH_WEST == 6
DIR_SOUTH_EAST == 7
DIR_SOUTH_WEST == 8

Directions == DIR_CENTER..DIR_SOUTH_WEST

(***************************************************************************)
(* Register bit numbers used by the sources (ATmega16)                     *)
(***************************************************************************)
REFS0 == 6
ADLAR == 5
ADEN == 7
ADSC == 6
ADIF == 4
ADIE == 3
SREG_I == 7
ADPS2 == 2
ADPS1 == 1
ADPS0 == 0
PD1 == 1
PD4 == 4
PD6 == 6

Byte == 0..255

\* (v >> n) & 1
Bit(v, n) == (v \div (2 ^ n)) % 2
\* v | (1 << n)
SetBit(v, n) == IF Bit(v, n) = 1 THEN v ELSE v + 2 ^ n
\* v & ~(1 << n)
ClrBit(v, n) == IF Bit(v, n) = 1 THEN v - 2 ^ n ELSE v

(***************************************************************************)
(* joystick.c                                                              *)
(***************************************************************************)
direction_names ==
    << <<"C">>, <<"N">>, <<"S">>, <<"E">>, <<"W">>,
       <<"N", "E">>, <<"N", "W">>, <<"S", "E">>, <<"S", "W">> >>

joystick_is_centered_ymax(x, y) ==
    IF x >= CENTER_X_MIN /\ x <= CENTER_X_MAX /\
       y >= CENTER_Y_MIN /\ y <= CENTER_X_MAX
    THEN 1 ELSE 0

joystick_is_centered(x, y) ==
    IF x >= CENTER_X_MIN /\ x <= CENTER_X_MAX /\
       y >= CENTER_Y_MIN /\ y <= CENTER_Y_MAX
    THEN 1 ELSE 0

\* the cascade with the corner and cardinal results one enum value too high
joystick_get_direction_shifted(x, y) ==
    IF joystick_is_centered(x, y) # 0 THEN DIR_CENTER
    ELSE IF x > DIAGONAL_THRESHOLD_HIGH /\ y > DIAGONAL_THRESHOLD_HIGH
        THEN DIR_NORTH_EAST + 1
    ELSE IF x < DIAGONAL_THRESHOLD_LOW /\ y > (ADC_MAX - DIAGONAL_THRESHOLD_LOW)
        THEN DIR_NORTH_WEST + 1
    ELSE IF x > DIAGONAL_THRESHOLD_HIGH /\ y < DIAGONAL_THRESHOLD_LOW
        THEN DIR_SOUTH_EAST + 1
    ELSE IF x < DIAGONAL_THRESHOLD_LOW /\ y < DIAGONAL_THRESHOLD_LOW
        THEN DIR_SOUTH_WEST + 1
    ELSE IF y >= THRESHOLD_NORTH_Y /\ x >= CENTER_X_MIN /\ x <= CENTER_X_MAX
        THEN DIR_NORTH + 1
    ELSE IF y <= THRESHOLD_SOUTH_Y /\ x >= CENTER_X_MIN /\ x <= CENTER_X_MAX
        THEN DIR_SOUTH + 1
    ELSE IF x >= THRESHOLD_EAST_X /\ y >= CENTER_Y_MIN /\ y <= CENTER_X_MAX
        THEN DIR_EAST + 1
    ELSE IF x <= THRESHOLD_WEST_X /\ y >= CENTER_Y_MIN /\ y <= CENTER_X_MAX
        THEN DIR_WEST + 1
    ELSE DIR_CENTER

\* the cascade with the cardinal tests placed before the corner tests and
\* the cardinal thresholds taken as the comments of config.h word them
joystick_get_direction_cardinal_first(x, y) ==
    IF joystick_is_centered(x, y) # 0 THEN DIR_CENTER
    ELSE IF y >= THRESHOLD_NORTH_Y THEN DIR_NORTH
    ELSE IF y <= THRESHOLD_SOUTH_Y THEN DIR_SOUTH
    ELSE IF x >= THRESHOLD_EAST_X THEN DIR_EAST
    ELSE IF x <= THRESHOLD_WEST_X THEN DIR_WEST
    ELSE IF x > DIAGONAL_THRESHOLD_HIGH /\ y > DIAGONAL_THRESHOLD_HIGH
        THEN DIR_NORTH_EAST
    ELSE IF x < DIAGONAL_THRESHOLD_LOW /\ y > (ADC_MAX - DIAGONAL_THRESHOLD_LOW)
        THEN DIR_NORTH_WEST
    ELSE IF x > DIAGONAL_THRESHOLD_HIGH /\ y < DIAGONAL_THRESHOLD_LOW
        THEN DIR_SOUTH_EAST
    ELSE IF x < DIAGONAL_THRESHOLD_LOW /\ y < DIAGONAL_THRESHOLD_LOW
        THEN DIR_SOUTH_WEST
    ELSE DIR_CENTER

\* the cascade ending in the nearest cardinal direction instead of Center
joystick_get_direction_no_fallback(x, y) ==
    IF joystick_is_centered(x, y) # 0 THEN DIR_CENTER
    ELSE IF x > DIAGONAL_THRESHOLD_HIGH /\ y > DIAGONAL_THRESHOLD_HIGH
        THEN DIR_NORTH_EAST
    ELSE IF x < DIAGONAL_THRESHOLD_LOW /\ y > (ADC_MAX - DIAGONAL_THRESHOLD_LOW)
        THEN DIR_NORTH_WEST
    ELSE IF x > DIAGONAL_THRESHOLD_HIGH /\ y < DIAGONAL_THRESHOLD_LOW
        THEN DIR_SOUTH_EAST
    ELSE IF x < DIAGONAL_THRESHOLD_LOW /\ y < DIAGONAL_THRESHOLD_LOW
        THEN DIR_SOUTH_WEST
    ELSE IF y >= THRESHOLD_NORTH_Y /\ x >= CENTER_X_MIN /\ x <= CENTER_X_MAX
        THEN DIR_NORTH
    ELSE IF y <= THRESHOLD_SOUTH_Y /\ x >= CENTER_X_MIN /\ x <= CENTER_X_MAX
        THEN DIR_SOUTH
    ELSE IF x >= THRESHOLD_EAST_X /\ y >= CENTER_Y_MIN /\ y <= CENTER_X_MAX
        THEN DIR_EAST
    ELSE IF x <= THRESHOLD_WEST_X /\ y >= CENTER_Y_MIN /\ y <= CENTER_X_MAX
        THEN DIR_WEST
    ELSE IF y > CENTER_Y_MAX THEN DIR_NORTH
    ELSE IF y < CENTER_Y_MIN THEN DIR_SOUTH
    ELSE IF x > CENTER_X_MAX THEN DIR_EAST
    ELSE DIR_WEST

joystick_get_direction(x, y) ==
    IF joystick_is_centered(x, y) # 0 THEN DIR_CENTER
    ELSE IF x > DIAGONAL_THRESHOLD_HIGH /\ y > DIAGONAL_THRESHOLD_HIGH
        THEN DIR_NORTH_EAST
    ELSE IF x < DIAGONAL_THRESHOLD_LOW /\ y > (ADC_MAX - DIAGONAL_THRESHOLD_LOW)
        THEN DIR_NORTH_WEST
    ELSE IF x > DIAGONAL_THRESHOLD_HIGH /\ y < DIAGONAL_THRESHOLD_LOW
        THEN DIR_SOUTH_EAST
    ELSE IF x < DIAGONAL_THRESHOLD_LOW /\ y < DIAGONAL_THRESHOLD_LOW
        THEN DIR_SOUTH_WEST
    ELSE IF y >= THRESHOLD_NORTH_Y /\ x >= CENTER_X_MIN /\ x <= CENTER_X_MAX
        THEN DIR_NORTH
    ELSE IF y <= THRESHOLD_SOUTH_Y /\ x >= CENTER_X_MIN /\ x <= CENTER_X_MAX
        THEN DIR_SOUTH
    ELSE IF x >= THRESHOLD_EAST_X /\ y >= CENTER_Y_MIN /\ y <= CENTER_X_MAX
        THEN DIR_EAST
    ELSE IF x <= THRESHOLD_WEST_X /\ y >= CENTER_Y_MIN /\ y <= CENTER_X_MAX
        THEN DIR_WEST
    ELSE DIR_CENTER

joystick_direction_to_string_strict(d) ==
    IF d >= 0 /\ d < DIR_SOUTH_WEST THEN direction_names[d + 1] ELSE <<"?">>

joystick_direction_to_string(d) ==
    IF d >= 0 /\ d <= DIR_SOUTH_WEST THEN direction_names[d + 1] ELSE <<"?">>

(***************************************************************************)
(* adc.c                                                                   *)
(***************************************************************************)
\* (uint16_t)value * 100, in 16-bit unsigned arithmetic
adc_percent_product(v) == (v * 100) % 65536

adc_to_percent_div256(v) == (adc_percent_product(v) \div 256) % 256

adc_to_percent(v) == (adc_percent_product(v) \div 255) % 256

(***************************************************************************)
(* Values the variables of a program keep while another program runs       *)
(***************************************************************************)
BlankDdram == [a \in (0..39) \cup (64..103) |-> " "]

ClassifierIdle ==
    /\ pos = [x |-> 0, y |-> 0]
    /\ dir = DIR_CENTER
    /\ centered = 0
    /\ label = <<>>

PercentIdle ==
    /\ value = 0
    /\ product = 0
    /\ percent = 0

LoopIdle ==
    /\ last_dir = DIR_CENTER
    /\ ADMUX = 0
    /\ ADCSRA = 0
    /\ ADCH = 0
    /\ lcd = [ac |-> 0, ddram |-> BlankDdram]
    /\ prev_dir = DIR_CENTER
    /\ wrote = FALSE
    /\ shown = <<>>
    /\ ADCL = 0
    /\ SREG = 0
    /\ adc_value = 0

DigitalIdle ==
    /\ DDRD = 0
    /\ PORTD = 0
    /\ PIND = 0
    /\ read1 = 0
    /\ read2 = 0

adcVars == <<ADCL, SREG, adc_value>>
loopVars == <<last_dir, ADMUX, ADCSRA, ADCH, lcd, prev_dir, wrote, shown,
              adcVars>>
digitalVars == <<DDRD, PORTD, PIND, read1, read2>>
percentVars == <<value, product, percent>>

(***************************************************************************)
(* The library functions called on every argument of their domain          *)
(***************************************************************************)
\* arguments handed to joystick_direction_to_string directly
EnumArgs == (DIR_CENTER - OutOfRange)..(DIR_SOUTH_WEST + OutOfRange)

InitFn ==
    /\ LoopIdle
    /\ DigitalIdle
    /\ \/ /\ pc = "call_get_direction"
          /\ pos \in [x : Byte, y : Byte]
          /\ dir = DIR_CENTER
          /\ centered = 0
          /\ label = <<>>
          /\ PercentIdle
       \/ /\ pc = "call_to_string_arg"
          /\ pos = [x |-> 0, y |-> 0]
          /\ dir \in EnumArgs
          /\ centered = 0
          /\ label = <<>>
          /\ PercentIdle
       \/ /\ pc = "call_to_percent"
          /\ ClassifierIdle
          /\ value \in Byte
          /\ product = 0
          /\ percent = 0

\* dir = joystick_get_direction(pos.x, pos.y), with the standalone
\* joystick_is_centered(pos.x, pos.y) evaluated on the same position
CallGetDirection ==
    /\ pc = "call_get_direction"
    /\ dir' = joystick_get_direction(pos.x, pos.y)
    /\ centered' = joystick_is_centered(pos.x, pos.y)
    /\ pc' = "call_to_string"
    /\ UNCHANGED <<pos, label>>
    /\ UNCHANGED <<percentVars, loopVars, digitalVars>>

\* joystick_direction_to_string(dir), dir coming from the classifier
CallToString ==
    /\ pc = "call_to_string"
    /\ label' = joystick_direction_to_string(dir)
    /\ pc' = "ret_to_string"
    /\ UNCHANGED <<pos, dir, centered>>
    /\ UNCHANGED <<percentVars, loopVars, digitalVars>>

\* joystick_direction_to_string(dir), dir being any value of the enum type
CallToStringArg ==
    /\ pc = "call_to_string_arg"
    /\ label' = joystick_direction_to_string(dir)
    /\ pc' = "ret_to_string_arg"
    /\ UNCHANGED <<pos, dir, centered>>
    /\ UNCHANGED <<percentVars, loopVars, digitalVars>>

\* adc_to_percent(value)
CallToPercent ==
    /\ pc = "call_to_percent"
    /\ product' = adc_percent_product(value)
    /\ percent' = adc_to_percent(value)
    /\ pc' = "ret_to_percent"
    /\ UNCHANGED <<value, pos, dir, centered, label>>
    /\ UNCHANGED <<loopVars, digitalVars>>

NextFn ==
    \/ CallGetDirection
    \/ CallToString
    \/ CallToStringArg
    \/ CallToPercent

SpecFn == InitFn /\ [][NextFn]_vars

(***************************************************************************)
(* lcd.c, driving an HD44780 in two-line mode: the display keeps an address *)
(* counter and the character cells of line 1 (0..39) and line 2 (64..103)   *)
(***************************************************************************)
\* address counter after a data write (entry mode: increment, no shift)
LcdNextAc(a) == IF a = 39 THEN 64 ELSE IF a = 103 THEN 0 ELSE a + 1

lcd_command(l, cmd) ==
    IF cmd >= 128 THEN [l EXCEPT !.ac = cmd - 128]
    ELSE IF cmd = LCD_CMD_CLEAR THEN [ac |-> 0, ddram |-> BlankDdram]
    ELSE l

lcd_data(l, data) ==
    [ac |-> LcdNextAc(l.ac),
     ddram |-> IF l.ac \in DOMAIN l.ddram
               THEN [l.ddram EXCEPT ![l.ac] = data]
               ELSE l.ddram]

lcd_init(l) ==
    lcd_command(
      lcd_command(
        lcd_command(
          lcd_command(
            lcd_command(l, LCD_CMD_FUNCTION_SET),
            LCD_CMD_DISPLAY_ON),
          LCD_CMD_CLEAR),
        LCD_CMD_ENTRY_MODE),
      LCD_CMD_LINE1)

lcd_set_cursor(l, row, col) ==
    LET address == IF row = 0 THEN (LCD_CMD_LINE1 + col) % 256
                   ELSE (LCD_CMD_LINE2 + col) % 256
    IN  lcd_command(l, address)

RECURSIVE lcd_print(_, _)
lcd_print(l, str) ==
    IF str = <<>> THEN l
    ELSE lcd_print(lcd_data(l, Head(str)), Tail(str))

(***************************************************************************)
(* adc.c: the ADC registers                                                *)
(***************************************************************************)
\* ADMUX = (ADMUX & 0xF0) | (channel & 0x0F); ADMUX |= (1 << ADLAR)
adc_select_8bit(admux, channel) ==
    SetBit((admux \div 16) * 16 + (channel % 16), ADLAR)

\* ADCSRA |= (1 << ADSC): the read-modify-write also writes back ADIF, and
\* a one written to ADIF clears that flag
adc_start_conversion(adcsra) == ClrBit(SetBit(adcsra, ADSC), ADIF)

\* ADMUX = (ADMUX & 0xF0) | (channel & 0x0F); ADMUX &= ~(1 << ADLAR)
adc_select_10bit(admux, channel) ==
    ClrBit((admux \div 16) * 16 + (channel % 16), ADLAR)

\* ADMUX = (1 << REFS0) | (1 << ADLAR)
adc_init_ADMUX == 2 ^ REFS0 + 2 ^ ADLAR

\* the value of adc_init with the conversion-complete interrupt switched on
adc_init_ADCSRA_irq ==
    2 ^ ADEN + 2 ^ ADIE + 2 ^ ADPS2 + 2 ^ ADPS1 + 2 ^ ADPS0

\* ADCSRA = (1 << ADEN) | (1 << ADPS2) | (1 << ADPS1) | (1 << ADPS0)
adc_init_ADCSRA == 2 ^ ADEN + 2 ^ ADPS2 + 2 ^ ADPS1 + 2 ^ ADPS0

\* the ADC interrupt is taken: global enable, ADIE and ADIF all set
AdcInterruptEnabled(sreg, adcsra) ==
    /\ Bit(sreg, SREG_I) = 1
    /\ Bit(adcsra, ADIE) = 1
    /\ Bit(adcsra, ADIF) = 1

\* ISR(ADC_vect): ADCSRA |= (1 << ADSC)
ADC_vect(adcsra) == adc_start_conversion(adcsra)

(***************************************************************************)
(* examples/direction_display/main.c                                       *)
(***************************************************************************)
Init ==
    /\ pc = "main"
    /\ ClassifierIdle
    /\ PercentIdle
    /\ LoopIdle
    /\ DigitalIdle

\* everything main does before the while loop
Startup ==
    /\ pc = "main"
    /\ DDRD' = 255
    /\ ADMUX' = adc_init_ADMUX
    /\ SREG' = SetBit(SREG, SREG_I)
    /\ ADCSRA' = adc_init_ADCSRA
    /\ lcd' = lcd_print(
                lcd_set_cursor(
                  lcd_print(lcd_init(lcd),
                            <<"D", "i", "r", "e", "c", "t", "i", "o", "n", ":">>),
                  1, 0),
                <<"C">>)
    /\ pc' = "read_x"
    /\ UNCHANGED <<pos, dir, last_dir, centered, label, ADCH,
                   prev_dir, wrote, shown, PORTD, PIND, read1, read2>>
    /\ UNCHANGED <<percentVars, ADCL, adc_value>>

\* adc_read_8bit(JOYSTICK_X_CHANNEL) up to the start of the conversion
StartX ==
    /\ pc = "read_x"
    /\ ADMUX' = adc_select_8bit(ADMUX, JOYSTICK_X_CHANNEL)
    /\ ADCSRA' = adc_start_conversion(ADCSRA)
    /\ pc' = "wait_x"
    /\ UNCHANGED <<pos, dir, last_dir, centered, label, ADCH, lcd,
                   prev_dir, wrote, shown>>
    /\ UNCHANGED <<percentVars, digitalVars, adcVars>>

\* adc_read_8bit(JOYSTICK_Y_CHANNEL) up to the start of the conversion
StartY ==
    /\ pc = "read_y"
    /\ ADMUX' = adc_select_8bit(ADMUX, JOYSTICK_Y_CHANNEL)
    /\ ADCSRA' = adc_start_conversion(ADCSRA)
    /\ pc' = "wait_y"
    /\ UNCHANGED <<pos, dir, last_dir, centered, label, ADCH, lcd,
                   prev_dir, wrote, shown>>
    /\ UNCHANGED <<percentVars, digitalVars, adcVars>>

\* the converter finishes: the 10-bit result goes to ADCH:ADCL as ADLAR says,
\* ADSC is cleared and ADIF set; if the ADC interrupt is enabled the handler
\* ADC_vect runs when the instruction in progress ends, before the busy-wait
\* reads ADCSRA again
Convert ==
    /\ pc \in {"wait_x", "wait_y", "wait_8bit", "wait_10bit"}
    /\ Bit(ADCSRA, ADSC) = 1
    /\ \E v \in Samples, low \in LowBits :
          LET r == v * 4 + low
          IN  /\ ADCH' = IF Bit(ADMUX, ADLAR) = 1 THEN r \div 4 ELSE r \div 256
              /\ ADCL' = IF Bit(ADMUX, ADLAR) = 1 THEN (r % 4) * 64 ELSE r % 256
    /\ ADCSRA' = LET done == SetBit(ClrBit(ADCSRA, ADSC), ADIF)
                 IN  IF AdcInterruptEnabled(SREG, done)
                     THEN ADC_vect(ClrBit(done, ADIF))
                     ELSE done
    /\ UNCHANGED <<pc, pos, dir, last_dir, centered, label, ADMUX, lcd,
                   prev_dir, wrote, shown, SREG, adc_value>>
    /\ UNCHANGED <<percentVars, digitalVars>>

\* while (ADCSRA & (1 << ADSC)); pos->x = ADCH
ReturnX ==
    /\ pc = "wait_x"
    /\ Bit(ADCSRA, ADSC) = 0
    /\ pos' = [pos EXCEPT !.x = ADCH]
    /\ pc' = "read_y"
    /\ UNCHANGED <<dir, last_dir, centered, label, ADMUX, ADCSRA, ADCH, lcd,
                   prev_dir, wrote, shown>>
    /\ UNCHANGED <<percentVars, digitalVars, adcVars>>

\* while (ADCSRA & (1 << ADSC)); pos->y = ADCH
ReturnY ==
    /\ pc = "wait_y"
    /\ Bit(ADCSRA, ADSC) = 0
    /\ pos' = [pos EXCEPT !.y = ADCH]
    /\ pc' = "classify"
    /\ UNCHANGED <<dir, last_dir, centered, label, ADMUX, ADCSRA, ADCH, lcd,
                   prev_dir, wrote, shown>>
    /\ UNCHANGED <<percentVars, digitalVars, adcVars>>

\* dir = joystick_get_direction(pos.x, pos.y)
Classify ==
    /\ pc = "classify"
    /\ dir' = joystick_get_direction(pos.x, pos.y)
    /\ pc' = "compare"
    /\ UNCHANGED <<pos, last_dir, centered, label, ADMUX, ADCSRA, ADCH, lcd,
                   prev_dir, wrote, shown>>
    /\ UNCHANGED <<percentVars, digitalVars, adcVars>>

\* the window of the last MaxShown dispatches, d being the newest
Dispatched(d) ==
    LET s == Append(shown, d)
    IN  IF Len(s) > MaxShown THEN Tail(s) ELSE s

\* the branch dir != last_dir without the three blanks printed first
UpdateDisplayNoClear ==
    /\ pc = "compare"
    /\ dir # last_dir
    /\ label' = joystick_direction_to_string(dir)
    /\ lcd' = lcd_print(lcd_set_cursor(lcd, 1, 0), label')
    /\ last_dir' = dir
    /\ wrote' = TRUE
    /\ shown' = Dispatched(dir)
    /\ pc' = "delay"
    /\ UNCHANGED <<pos, dir, centered, ADMUX, ADCSRA, ADCH, prev_dir>>
    /\ UNCHANGED <<percentVars, digitalVars, adcVars>>

\* the branch dir != last_dir with the assignment to last_dir left out
UpdateDisplayKeepLast ==
    /\ pc = "compare"
    /\ dir # last_dir
    /\ label' = joystick_direction_to_string(dir)
    /\ lcd' = lcd_print(
                lcd_set_cursor(
                  lcd_print(lcd_set_cursor(lcd, 1, 0), <<" ", " ", " ">>),
                  1, 0),
                label')
    /\ last_dir' = last_dir
    /\ wrote' = TRUE
    /\ shown' = Dispatched(dir)
    /\ pc' = "delay"
    /\ UNCHANGED <<pos, dir, centered, ADMUX, ADCSRA, ADCH, prev_dir>>
    /\ UNCHANGED <<percentVars, digitalVars, adcVars>>

\* if (dir != last_dir) { clear three cells, print the label, last_dir = dir }
UpdateDisplay ==
    /\ pc = "compare"
    /\ dir # last_dir
    /\ label' = joystick_direction_to_string(dir)
    /\ lcd' = lcd_print(
                lcd_set_cursor(
                  lcd_print(lcd_set_cursor(lcd, 1, 0), <<" ", " ", " ">>),
                  1, 0),
                label')
    /\ last_dir' = dir
    /\ wrote' = TRUE
    /\ shown' = Dispatched(dir)
    /\ pc' = "delay"
    /\ UNCHANGED <<pos, dir, centered, ADMUX, ADCSRA, ADCH, prev_dir>>
    /\ UNCHANGED <<percentVars, digitalVars, adcVars>>

\* dir == last_dir: the display is left alone
SkipDisplay ==
    /\ pc = "compare"
    /\ dir = last_dir
    /\ pc' = "delay"
    /\ UNCHANGED <<pos, dir, last_dir, centered, label, ADMUX, ADCSRA, ADCH,
                   lcd, prev_dir, wrote, shown>>
    /\ UNCHANGED <<percentVars, digitalVars, adcVars>>

\* _delay_ms(100), then the next cycle begins
Delay ==
    /\ pc = "delay"
    /\ prev_dir' = dir
    /\ wrote' = FALSE
    /\ pc' = "read_x"
    /\ UNCHANGED <<pos, dir, last_dir, centered, label, ADMUX, ADCSRA, ADCH,
                   lcd, shown>>
    /\ UNCHANGED <<percentVars, digitalVars, adcVars>>

Next ==
    \/ Startup
    \/ StartX
    \/ StartY
    \/ Convert
    \/ ReturnX
    \/ ReturnY
    \/ Classify
    \/ UpdateDisplay
    \/ SkipDisplay
    \/ Delay

Spec == Init /\ [][Next]_vars

(***************************************************************************)
(* examples/digital_input/main.c                                           *)
(***************************************************************************)
InitDigital ==
    /\ pc = "digital_main"
    /\ ClassifierIdle
    /\ PercentIdle
    /\ LoopIdle
    /\ DigitalIdle

\* levels on the port D pins: pins 4..7 are driven from PORTD, pins 0..3
\* by the joystick
PinLevels(portd, inputs) == (portd \div 16) * 16 + inputs

\* DDRD = 0xF0; PORTD = 0x0F
DigitalSetup ==
    /\ pc = "digital_main"
    /\ DDRD' = 240
    /\ PORTD' = 15
    /\ pc' = "clear_leds"
    /\ UNCHANGED <<PIND, read1, read2>>
    /\ UNCHANGED <<pos, dir, centered, label, percentVars, loopVars>>

\* PORTD &= ~(1 << PD4); PORTD &= ~(1 << PD6)
ClearLeds ==
    /\ pc = "clear_leds"
    /\ PORTD' = ClrBit(ClrBit(PORTD, PD4), PD6)
    /\ pc' = "test_pressed"
    /\ UNCHANGED <<DDRD, PIND, read1, read2>>
    /\ UNCHANGED <<pos, dir, centered, label, percentVars, loopVars>>

\* if (~PIND & (1 << PD1)) PORTD |= (1 << PD4)
TestPressed ==
    /\ pc = "test_pressed"
    /\ \E inputs \in 0..15 : PIND' = PinLevels(PORTD, inputs)
    /\ read1' = Bit(PIND', PD1)
    /\ PORTD' = IF 1 - Bit(PIND', PD1) # 0 THEN SetBit(PORTD, PD4) ELSE PORTD
    /\ pc' = "test_released"
    /\ UNCHANGED <<DDRD, read2>>
    /\ UNCHANGED <<pos, dir, centered, label, percentVars, loopVars>>

\* if (PIND & (1 << PD1)) PORTD |= (1 << PD6)
\* else { PORTD &= ~(1 << PD4); PORTD &= ~(1 << PD6) }
TestReleased ==
    /\ pc = "test_released"
    /\ \E inputs \in 0..15 : PIND' = PinLevels(PORTD, inputs)
    /\ read2' = Bit(PIND', PD1)
    /\ PORTD' = IF Bit(PIND', PD1) # 0 THEN SetBit(PORTD, PD6)
                ELSE ClrBit(ClrBit(PORTD, PD4), PD6)
    /\ pc' = "end_iteration"
    /\ UNCHANGED <<DDRD, read1>>
    /\ UNCHANGED <<pos, dir, centered, label, percentVars, loopVars>>

\* the closing brace of while (1)
LoopBack ==
    /\ pc = "end_iteration"
    /\ pc' = "clear_leds"
    /\ UNCHANGED digitalVars
    /\ UNCHANGED <<pos, dir, centered, label, percentVars, loopVars>>

NextDigital ==
    \/ DigitalSetup
    \/ ClearLeds
    \/ TestPressed
    \/ TestReleased
    \/ LoopBack

SpecDigital == InitDigital /\ [][NextDigital]_vars

(***************************************************************************)
(* adc.c called in any order: adc_init, then adc_read and adc_read_8bit on  *)
(* any channel, with global interrupts enabled as the examples enable them  *)
(***************************************************************************)
Channels == 0..MaxChannel

InitAdc ==
    /\ pc = "adc_reset"
    /\ ClassifierIdle
    /\ PercentIdle
    /\ LoopIdle
    /\ DigitalIdle

\* sei(); adc_init()
AdcSetup ==
    /\ pc = "adc_reset"
    /\ SREG' = SetBit(SREG, SREG_I)
    /\ ADMUX' = adc_init_ADMUX
    /\ ADCSRA' = adc_init_ADCSRA
    /\ pc' = "adc_idle"
    /\ UNCHANGED <<pos, dir, centered, label, last_dir, ADCH, ADCL, adc_value,
                   lcd, prev_dir, wrote, shown>>
    /\ UNCHANGED <<percentVars, digitalVars>>

\* adc_read_8bit(channel) up to the start of the conversion
CallRead8bit ==
    /\ pc = "adc_idle"
    /\ \E channel \in Channels : ADMUX' = adc_select_8bit(ADMUX, channel)
    /\ ADCSRA' = adc_start_conversion(ADCSRA)
    /\ pc' = "wait_8bit"
    /\ UNCHANGED <<pos, dir, centered, label, last_dir, ADCH, ADCL, SREG,
                   adc_value, lcd, prev_dir, wrote, shown>>
    /\ UNCHANGED <<percentVars, digitalVars>>

\* adc_read(channel) up to the start of the conversion
CallRead10bit ==
    /\ pc = "adc_idle"
    /\ \E channel \in Channels : ADMUX' = adc_select_10bit(ADMUX, channel)
    /\ ADCSRA' = adc_start_conversion(ADCSRA)
    /\ pc' = "wait_10bit"
    /\ UNCHANGED <<pos, dir, centered, label, last_dir, ADCH, ADCL, SREG,
                   adc_value, lcd, prev_dir, wrote, shown>>
    /\ UNCHANGED <<percentVars, digitalVars>>

\* while (ADCSRA & (1 << ADSC)); return ADCH
Return8bit ==
    /\ pc = "wait_8bit"
    /\ Bit(ADCSRA, ADSC) = 0
    /\ adc_value' = ADCH
    /\ pc' = "adc_idle"
    /\ UNCHANGED <<pos, dir, centered, label, last_dir, ADMUX, ADCSRA, ADCH,
                   ADCL, SREG, lcd, prev_dir, wrote, shown>>
    /\ UNCHANGED <<percentVars, digitalVars>>

\* while (ADCSRA & (1 << ADSC)); return ADC
Return10bit ==
    /\ pc = "wait_10bit"
    /\ Bit(ADCSRA, ADSC) = 0
    /\ adc_value' = ADCH * 256 + ADCL
    /\ pc' = "adc_idle"
    /\ UNCHANGED <<pos, dir, centered, label, last_dir, ADMUX, ADCSRA, ADCH,
                   ADCL, SREG, lcd, prev_dir, wrote, shown>>
    /\ UNCHANGED <<percentVars, digitalVars>>

NextAdc ==
    \/ AdcSetup
    \/ CallRead8bit
    \/ CallRead10bit
    \/ Convert
    \/ Return8bit
    \/ Return10bit

\* the converter finishes every conversion that was started, and the
\* processor keeps executing the busy-wait
SpecAdc ==
    /\ InitAdc
    /\ [][NextAdc]_vars
    /\ WF_vars(Convert)
    /\ WF_vars(Return8bit)
    /\ WF_vars(Return10bit)

(***************************************************************************)
(* Properties                                                              *)
(***************************************************************************)
\* the classifier has returned for the position pos
Classified == pc \in {"call_to_string", "ret_to_string"}

InCenterZone(x, y) ==
    /\ CENTER_X_MIN <= x /\ x <= CENTER_X_MAX
    /\ CENTER_Y_MIN <= y /\ y <= CENTER_Y_MAX

\* C1: for every x, y in 0..255 joystick_get_direction returns one of the
\* nine Direction values.
C1_Totality == Classified => dir \in Directions

C1_Witness ==
    /\ pc = "call_to_string"
    /\ pos = [x |-> 255, y |-> 0]
    /\ dir = DIR_SOUTH_EAST

\* the ordered first-match-wins cascade as section 4.3 of the specification
\* writes it, East and West bounded by CENTER_Y_MIN..CENTER_Y_MAX
Section43Cascade(x, y) ==
    IF InCenterZone(x, y) THEN DIR_CENTER
    ELSE IF x > DIAGONAL_THRESHOLD_HIGH /\ y > DIAGONAL_THRESHOLD_HIGH
        THEN DIR_NORTH_EAST
    ELSE IF x < DIAGONAL_THRESHOLD_LOW /\ y > 255 - DIAGONAL_THRESHOLD_LOW
        THEN DIR_NORTH_WEST
    ELSE IF x > DIAGONAL_THRESHOLD_HIGH /\ y < DIAGONAL_THRESHOLD_LOW
        THEN DIR_SOUTH_EAST
    ELSE IF x < DIAGONAL_THRESHOLD_LOW /\ y < DIAGONAL_THRESHOLD_LOW
        THEN DIR_SOUTH_WEST
    ELSE IF y >= THRESHOLD_NORTH_Y /\ CENTER_X_MIN <= x /\ x <= CENTER_X_MAX
        THEN DIR_NORTH
    ELSE IF y <= THRESHOLD_SOUTH_Y /\ CENTER_X_MIN <= x /\ x <= CENTER_X_MAX
        THEN DIR_SOUTH
    ELSE IF x >= THRESHOLD_EAST_X /\ CENTER_Y_MIN <= y /\ y <= CENTER_Y_MAX
        THEN DIR_EAST
    ELSE IF x <= THRESHOLD_WEST_X /\ CENTER_Y_MIN <= y /\ y <= CENTER_Y_MAX
        THEN DIR_WEST
    ELSE DIR_CENTER

\* C2: for every position the classifier returns what the cascade of
\* section 4.3 of the specification returns.
C2_EqualsSection43Cascade ==
    Classified => dir = Section43Cascade(pos.x, pos.y)

\* C3: a cardinal result has its orthogonal axis inside the center band:
\* x in CENTER_X_MIN..CENTER_X_MAX for North and South,
\* y in CENTER_Y_MIN..CENTER_Y_MAX for East and West.
C3_CardinalInsideCenterBand ==
    Classified =>
        /\ dir \in {DIR_NORTH, DIR_SOUTH} =>
              (CENTER_X_MIN <= pos.x /\ pos.x <= CENTER_X_MAX)
        /\ dir \in {DIR_EAST, DIR_WEST} =>
              (CENTER_Y_MIN <= pos.y /\ pos.y <= CENTER_Y_MAX)

\* C4: the pinned points: (128,128) is Center, (255,255) NorthEast,
\* (0,0) SouthWest and (255,128) East.
C4_PinnedPoints ==
    Classified =>
        /\ pos = [x |-> 128, y |-> 128] => dir = DIR_CENTER
        /\ pos = [x |-> 255, y |-> 255] => dir = DIR_NORTH_EAST
        /\ pos = [x |-> 0, y |-> 0] => dir = DIR_SOUTH_WEST
        /\ pos = [x |-> 255, y |-> 128] => dir = DIR_EAST

C4_Witness ==
    /\ pc = "ret_to_string"
    /\ pos = [x |-> 255, y |-> 255]
    /\ dir = DIR_NORTH_EAST

\* C5: joystick_is_centered is 1 exactly inside the center zone and 0
\* elsewhere; where it is 1 the classifier returns Center, and a Center
\* that rule 1 produced (the position is in the zone) has it 1.
C5_IsCenteredAgrees ==
    Classified =>
        /\ centered = (IF InCenterZone(pos.x, pos.y) THEN 1 ELSE 0)
        /\ centered = 1 => dir = DIR_CENTER
        /\ (dir = DIR_CENTER /\ InCenterZone(pos.x, pos.y)) => centered = 1

C5_Witness ==
    /\ pc = "call_to_string"
    /\ pos = [x |-> 70, y |-> 160]
    /\ centered = 1
    /\ dir = DIR_CENTER

NineLabels ==
    { <<"C">>, <<"N">>, <<"S">>, <<"E">>, <<"W">>,
      <<"N", "E">>, <<"N", "W">>, <<"S", "E">>, <<"S", "W">> }

FixedLabel(d) ==
    CASE d = DIR_CENTER -> <<"C">>
      [] d = DIR_NORTH -> <<"N">>
      [] d = DIR_SOUTH -> <<"S">>
      [] d = DIR_EAST -> <<"E">>
      [] d = DIR_WEST -> <<"W">>
      [] d = DIR_NORTH_EAST -> <<"N", "E">>
      [] d = DIR_NORTH_WEST -> <<"N", "W">>
      [] d = DIR_SOUTH_EAST -> <<"S", "E">>
      [] d = DIR_SOUTH_WEST -> <<"S", "W">>
      [] OTHER -> <<"?">>

\* C6: joystick_direction_to_string gives each Direction its fixed label
\* and "?" to every other value; the label of a classified position is one
\* of the nine labels, never "?".
C6_Labels ==
    /\ pc \in {"ret_to_string", "ret_to_string_arg"} => label = FixedLabel(dir)
    /\ pc = "ret_to_string" => (label \in NineLabels /\ label # <<"?">>)

C6_Witness ==
    /\ pc = "ret_to_string"
    /\ pos = [x |-> 0, y |-> 0]
    /\ label = <<"S", "W">>

\* C7: a cycle of the polling loop writes to the display exactly when the
\* direction it classified differs from the direction of the previous cycle
\* (Center before the first); what it writes is that direction, and no two
\* consecutive dispatches carry the same direction.
C7_DispatchOnChangeOnly ==
    /\ pc = "delay" => (wrote <=> dir # prev_dir)
    /\ wrote => (shown # <<>> /\ shown[Len(shown)] = dir)
    /\ \A i \in 1..(Len(shown) - 1) : shown[i] # shown[i + 1]

C7_Witness ==
    /\ pc = "delay"
    /\ wrote
    /\ Len(shown) >= 2
    /\ dir = DIR_CENTER
    /\ pos = [x |-> 200, y |-> 200]

\* the tests of the cascade that follow the center test
CornerTest(x, y) ==
    \/ x > DIAGONAL_THRESHOLD_HIGH /\ y > DIAGONAL_THRESHOLD_HIGH
    \/ x < DIAGONAL_THRESHOLD_LOW /\ y > ADC_MAX - DIAGONAL_THRESHOLD_LOW
    \/ x > DIAGONAL_THRESHOLD_HIGH /\ y < DIAGONAL_THRESHOLD_LOW
    \/ x < DIAGONAL_THRESHOLD_LOW /\ y < DIAGONAL_THRESHOLD_LOW

CardinalTest(x, y) ==
    \/ y >= THRESHOLD_NORTH_Y /\ CENTER_X_MIN <= x /\ x <= CENTER_X_MAX
    \/ y <= THRESHOLD_SOUTH_Y /\ CENTER_X_MIN <= x /\ x <= CENTER_X_MAX
    \/ x >= THRESHOLD_EAST_X /\ CENTER_Y_MIN <= y /\ y <= CENTER_X_MAX
    \/ x <= THRESHOLD_WEST_X /\ CENTER_Y_MIN <= y /\ y <= CENTER_X_MAX

C9_Percent ==
    pc = "ret_to_percent" =>
        /\ percent = (value * 100) \div 255
        /\ percent \in 0..100
        /\ value = 0 => percent = 0
        /\ value = 255 => percent = 100
        /\ \A w \in 0..value : adc_to_percent(w) <= percent
        /\ product = value * 100
        /\ product <= 65535

C9_Witness ==
    /\ pc = "ret_to_percent"
    /\ value = 255
    /\ percent = 100
    /\ product = 25500

\* C10: at the end of an iteration of the digital-input loop in which PD1
\* read low both times the LED on PD4 is on; at the end of one in which PD1
\* read high both times the LED on PD6 is on and the LED on PD4 is off.
C10_LedsFollowInput ==
    pc = "end_iteration" =>
        /\ (read1 = 0 /\ read2 = 0) => Bit(PORTD, PD4) = 1
        /\ (read1 = 1 /\ read2 = 1) =>
              (Bit(PORTD, PD6) = 1 /\ Bit(PORTD, PD4) = 0)

Row1Columns == <<lcd.ddram[64], lcd.ddram[65], lcd.ddram[66]>>

\* a label padded on the right with spaces to three characters
Padded(str) == [i \in 1..3 |-> IF i <= Len(str) THEN str[i] ELSE " "]

\* C12: at loop entry and at the end of every polling cycle last_dir is the
\* most recently classified direction (Center before the first cycle) and
\* columns 0..2 of row 1 show the label of last_dir padded with spaces.
C12_DisplayShowsLastDir ==
    /\ pc = "delay" => last_dir = dir
    /\ pc = "read_x" => last_dir = prev_dir
    /\ pc \in {"read_x", "delay"} =>
          Row1Columns = Padded(joystick_direction_to_string(last_dir))

C12_Witness ==
    /\ pc = "delay"
    /\ shown = <<DIR_NORTH_EAST, DIR_NORTH>>
    /\ last_dir = DIR_NORTH
    /\ Row1Columns = <<"N", " ", " ">>

====
